---- MODULE Spec2Model ----
(***************************************************************************)
(* GIndexSet (glib/gindexset.c): a set of unsigned indices stored as a     *)
(* sorted array of GRange {location, length}.                              *)
(*                                                                         *)
(* guint arithmetic is modelled with its wraparound, on a machine word     *)
(* scaled down from 32 bits: G_MAXINT is 3 and G_MAXUINT is 7, so that     *)
(* every guint value can be enumerated as an argument.  The default build  *)
(* is modelled: g_return_if_fail checks are compiled in (a failed check    *)
(* returns at once) and g_assert is compiled in (a failed assertion        *)
(* aborts the program).                                                    *)
(*                                                                         *)
(* One client drives one GIndexSet: each public function is one action     *)
(* that runs the whole call, records the call and the state it started     *)
(* from (call, pre) and leaves pc at "returned"; Resume hands control back *)
(* to the client for the next call.                                        *)
(***************************************************************************)
EXTENDS Integers, Sequences, FiniteSets, TLC

VARIABLES index_set, pc, call, pre, area, threads

vars == <<index_set, pc, call, pre, area, threads>>

\* the reference count of the object and the threads that share it
refvars == <<area, threads>>

-----------------------------------------------------------------------------
(* Machine word *)

G_MAXINT == 3

G_MAXUINT == 2 * G_MAXINT + 1

GUintMod == G_MAXUINT + 1

GUint == 0 .. G_MAXUINT

G_INDEX_SET_NOT_FOUND == G_MAXINT

\* unsigned addition and subtraction, wrapping at the word size
UAdd(a, b) == (a + b) % GUintMod

USub(a, b) == (a + GUintMod - b) % GUintMod

-----------------------------------------------------------------------------
(* Bounds of the model *)

\* longest index array / argument list passed to the *_indices functions
MaxN == 2

-----------------------------------------------------------------------------
(* GRange *)

G_RANGE_INIT(loc, len) == [location |-> loc, length |-> len]

GRangeT == [location : GUint, length : GUint]

\* a const GRange * that is NULL
NullRange == [location |-> -1, length |-> -1]

g_range_get_max(range) == UAdd(range.location, range.length)

g_range_contains_location(range, location) ==
    location >= range.location /\ location < g_range_get_max(range)

-----------------------------------------------------------------------------
(* GArray of GRange: positions count from 0, as in C; Sequences from 1 *)

g_array_index(a, i) == a[i + 1]

g_array_insert_val(a, i, v) ==
    [k \in 1 .. Len(a) + 1 |->
        IF k < i + 1 THEN a[k] ELSE IF k = i + 1 THEN v ELSE a[k - 1]]

g_array_remove_index(a, i) ==
    [k \in 1 .. Len(a) - 1 |-> IF k < i + 1 THEN a[k] ELSE a[k + 1]]

ArraySetLength(a, i, len) ==
    [a EXCEPT ![i + 1] = [location |-> a[i + 1].location, length |-> len]]

-----------------------------------------------------------------------------
(* struct _GIndexSet *)

\* g_index_set_alloc: no range store yet, mutable
g_index_set_alloc == [ranges |-> << >>, ranges_null |-> TRUE, is_mutable |-> TRUE]

\* a GIndexSet * that is NULL
NullSet == [ranges |-> <<NullRange>>, ranges_null |-> TRUE, is_mutable |-> FALSE]

\* a const guint * that is NULL
NullIndices == <<-1>>

\* the binary search of g_index_set_get_position
RECURSIVE BinarySearch(_, _, _, _, _)
BinarySearch(ranges, index_, lower, upper, pos) ==
    IF upper = lower
    THEN pos
    ELSE LET range == g_array_index(ranges, pos)
         IN  IF index_ < range.location
             THEN BinarySearch(ranges, index_, lower, pos, (pos + lower) \div 2)
             ELSE IF index_ > UAdd(range.location, range.length)
                  THEN BinarySearch(ranges, index_, pos + 1, upper,
                                    (upper + pos + 1) \div 2)
                  ELSE pos

\* "skip ranges that contain values smaller than the index"
RECURSIVE SkipSmaller(_, _, _)
SkipSmaller(ranges, index_, pos) ==
    IF pos < Len(ranges) /\ index_ >= g_range_get_max(g_array_index(ranges, pos))
    THEN SkipSmaller(ranges, index_, pos + 1)
    ELSE pos

\* mutant: the loop that skips the ranges ending at or before the index is
\* missing
g_index_set_get_position_NoSkip(ranges, index_) ==
    BinarySearch(ranges, index_, 0, Len(ranges), Len(ranges) \div 2)

g_index_set_get_position(ranges, index_) ==
    SkipSmaller(ranges, index_,
                BinarySearch(ranges, index_, 0, Len(ranges), Len(ranges) \div 2))

\* the assertions of g_index_set_ensure_ranges: TRUE iff none fails
RECURSIVE EnsureFrom(_, _, _)
EnsureFrom(ranges, i, last) ==
    IF i >= Len(ranges)
    THEN TRUE
    ELSE LET range == g_array_index(ranges, i)
         IN  /\ (IF i > 0 THEN range.location > last ELSE range.location >= last)
             /\ g_range_get_max(range) > range.location
             /\ EnsureFrom(ranges, i + 1, g_range_get_max(range))

g_index_set_ensure_ranges(s) ==
    s.ranges_null \/ EnsureFrom(s.ranges, 0, 0)

g_index_set_clear_ranges(s) ==
    [ranges |-> << >>, ranges_null |-> FALSE, is_mutable |-> TRUE]

g_index_set_make_immutable(s) == [s EXCEPT !.is_mutable = FALSE]

\* mutant: every set passes for mutable
g_index_set_is_mutable_Always(s) == TRUE

g_index_set_is_mutable(s) == s.is_mutable

-----------------------------------------------------------------------------
(* How a call ends:                                                        *)
(*   "ok"       it ran to its end                                          *)
(*   "refused"  a g_return_if_fail check failed, the call returned at once *)
(*   "assert"   a g_assert failed, the program aborted                     *)
(*   "segv"     a NULL pointer was dereferenced, the program crashed       *)

Done(s) == [set |-> s, outcome |-> "ok"]

Refused(s) == [set |-> s, outcome |-> "refused"]

Crashed(s) == [set |-> s, outcome |-> "segv"]

\* mutant: the range before the copy is not grown to cover the copy
RECURSIVE CoalescePreceding_NoExtend(_, _, _)
CoalescePreceding_NoExtend(ranges, range, pos) ==
    IF pos > 0
    THEN LET r == g_array_index(ranges, pos - 1)
         IN  IF g_range_get_max(r) < range.location
             THEN [ranges |-> ranges, pos |-> pos]
             ELSE CoalescePreceding_NoExtend(g_array_remove_index(ranges, pos),
                                             range, pos - 1)
    ELSE [ranges |-> ranges, pos |-> pos]

\* mutant: the range before the copy is resized without asking whether it
\* already reaches past the copy
RECURSIVE CoalescePreceding_AlwaysExtend(_, _, _)
CoalescePreceding_AlwaysExtend(ranges, range, pos) ==
    IF pos > 0
    THEN LET r == g_array_index(ranges, pos - 1)
         IN  IF g_range_get_max(r) < range.location
             THEN [ranges |-> ranges, pos |-> pos]
             ELSE CoalescePreceding_AlwaysExtend(
                      g_array_remove_index(
                          ArraySetLength(ranges, pos - 1,
                              UAdd(r.length,
                                   USub(g_range_get_max(range),
                                        g_range_get_max(r)))),
                          pos),
                      range, pos - 1)
    ELSE [ranges |-> ranges, pos |-> pos]

\* "coalesce the preceding range intervals"; yields the array and pos
RECURSIVE CoalescePreceding(_, _, _)
CoalescePreceding(ranges, range, pos) ==
    IF pos > 0
    THEN LET r == g_array_index(ranges, pos - 1)
         IN  IF g_range_get_max(r) < range.location
             THEN [ranges |-> ranges, pos |-> pos]
             ELSE IF g_range_get_max(r) >= g_range_get_max(range)
                  THEN CoalescePreceding(g_array_remove_index(ranges, pos),
                                         range, pos - 1)
                  ELSE CoalescePreceding(
                           g_array_remove_index(
                               ArraySetLength(ranges, pos - 1,
                                   UAdd(r.length,
                                        USub(g_range_get_max(range),
                                             g_range_get_max(r)))),
                               pos),
                           range, pos - 1)
    ELSE [ranges |-> ranges, pos |-> pos]

\* "and now coalesce the following intervals"
RECURSIVE CoalesceFollowing(_, _, _)
CoalesceFollowing(ranges, range, pos) ==
    IF pos + 1 < Len(ranges)
    THEN LET r == g_array_index(ranges, pos + 1)
         IN  IF g_range_get_max(range) < r.location
             THEN ranges
             ELSE LET removed == g_array_remove_index(ranges, pos + 1)
                      offset  == USub(g_range_get_max(r), g_range_get_max(range))
                  IN  IF g_range_get_max(r) > g_range_get_max(range)
                      THEN CoalesceFollowing(
                               ArraySetLength(removed, pos,
                                   UAdd(g_array_index(removed, pos).length, offset)),
                               range, pos)
                      ELSE CoalesceFollowing(removed, range, pos)
    ELSE ranges

\* where g_index_set_add_range_internal puts the copy of range
InsertCopy(ranges, range) ==
    LET pos == g_index_set_get_position(ranges, range.location)
    IN  IF pos >= Len(ranges)
        THEN [ranges |-> Append(ranges, range), pos |-> pos]
        ELSE LET at == IF g_range_contains_location(g_array_index(ranges, pos),
                                                    range.location)
                       THEN pos + 1
                       ELSE pos
             IN  [ranges |-> g_array_insert_val(ranges, at, range), pos |-> at]

g_index_set_add_range_internal(s, range) ==
    IF range.length = 0
    THEN Done(s)
    ELSE IF s.ranges_null
    THEN Crashed(s)
    ELSE LET ins  == InsertCopy(s.ranges, range)
             back == CoalescePreceding(ins.ranges, range, ins.pos)
             t    == [s EXCEPT !.ranges = CoalesceFollowing(back.ranges, range, back.pos)]
         IN  [set |-> t,
              outcome |-> IF g_index_set_ensure_ranges(t) THEN "ok" ELSE "assert"]

\* the loops "for (i = 0; i < n_indices; i++)" of the *_indices functions
RECURSIVE AddIndicesFrom(_, _, _)
AddIndicesFrom(s, indices, i) ==
    IF i >= Len(indices)
    THEN Done(s)
    ELSE LET one == g_index_set_add_range_internal(s, G_RANGE_INIT(indices[i + 1], 1))
         IN  IF one.outcome = "ok"
             THEN AddIndicesFrom(one.set, indices, i + 1)
             ELSE one

\* the loop over set->ranges of g_index_set_add_set
RECURSIVE AddRangesFrom(_, _, _)
AddRangesFrom(s, ranges, i) ==
    IF i >= Len(ranges)
    THEN Done(s)
    ELSE LET one == g_index_set_add_range_internal(s, g_array_index(ranges, i))
         IN  IF one.outcome = "ok"
             THEN AddRangesFrom(one.set, ranges, i + 1)
             ELSE one

\* runs f's result through g_index_set_make_immutable when the call got there
ThenMakeImmutable(res) ==
    IF res.outcome = "ok"
    THEN Done(g_index_set_make_immutable(res.set))
    ELSE res

-----------------------------------------------------------------------------
(* Initialization *)

g_index_set_init(s) ==
    IF s = NullSet
    THEN Refused(s)
    ELSE Done(g_index_set_clear_ranges(s))

g_index_set_init_empty(s) ==
    IF s = NullSet
    THEN Refused(s)
    ELSE Done(g_index_set_make_immutable(g_index_set_clear_ranges(s)))

g_index_set_init_with_index(s, index_) ==
    IF s = NullSet
    THEN Refused(s)
    ELSE LET cleared == g_index_set_clear_ranges(s)
         IN  Done(g_index_set_make_immutable(
                 [cleared EXCEPT !.ranges =
                     g_array_insert_val(cleared.ranges, 0, G_RANGE_INIT(index_, 1))]))

\* the ranges are cleared before indices is checked
g_index_set_init_with_indicesv(s, n_indices, indices) ==
    IF s = NullSet
    THEN Refused(s)
    ELSE IF n_indices > 0 /\ indices = NullIndices
    THEN Refused(g_index_set_clear_ranges(s))
    ELSE ThenMakeImmutable(
             AddIndicesFrom(g_index_set_clear_ranges(s),
                            SubSeq(indices, 1, n_indices), 0))

g_index_set_init_with_indices(s, indices) ==
    IF s = NullSet
    THEN Refused(s)
    ELSE ThenMakeImmutable(AddIndicesFrom(g_index_set_clear_ranges(s), indices, 0))

g_index_set_init_with_range(s, range) ==
    IF s = NullSet
    THEN Refused(s)
    ELSE IF range = NullRange
    THEN Refused(s)
    ELSE ThenMakeImmutable(
             g_index_set_add_range_internal(g_index_set_clear_ranges(s), range))

\* the loop reads the ranges of index_set, just cleared, not those of set:
\* g_index_set_get_range (index_set, 0) is NULL and is dereferenced
g_index_set_init_with_set(s, set) ==
    IF s = NullSet
    THEN Refused(s)
    ELSE IF set = NullSet
    THEN Refused(s)
    ELSE LET cleared == g_index_set_clear_ranges(s)
         IN  IF set.ranges_null \/ Len(set.ranges) = 0
             THEN Done(g_index_set_make_immutable(cleared))
             ELSE Crashed(cleared)

-----------------------------------------------------------------------------
(* Updates *)

g_index_set_add_index(s, index_) ==
    IF s = NullSet
    THEN Refused(s)
    ELSE IF ~ g_index_set_is_mutable(s)
    THEN Refused(s)
    ELSE g_index_set_add_range_internal(s, G_RANGE_INIT(index_, 1))

g_index_set_add_indices(s, indices) ==
    IF s = NullSet
    THEN Refused(s)
    ELSE IF ~ g_index_set_is_mutable(s)
    THEN Refused(s)
    ELSE AddIndicesFrom(s, indices, 0)

g_index_set_add_indicesv(s, n_indices, indices) ==
    IF s = NullSet
    THEN Refused(s)
    ELSE IF ~ g_index_set_is_mutable(s)
    THEN Refused(s)
    ELSE IF n_indices > 0 /\ indices = NullIndices
    THEN Refused(s)
    ELSE AddIndicesFrom(s, SubSeq(indices, 1, n_indices), 0)

\* mutant: the g_return_if_fail on g_index_set_is_mutable is missing
g_index_set_add_range_Unchecked(s, range) ==
    g_index_set_add_range_internal(s, range)

g_index_set_add_range(s, range) ==
    IF s = NullSet
    THEN Refused(s)
    ELSE IF ~ g_index_set_is_mutable(s)
    THEN Refused(s)
    ELSE IF range = NullRange
    THEN Refused(s)
    ELSE g_index_set_add_range_internal(s, range)

g_index_set_add_set(s, set) ==
    IF s = NullSet
    THEN Refused(s)
    ELSE IF ~ g_index_set_is_mutable(s)
    THEN Refused(s)
    ELSE IF set = NullSet
    THEN Refused(s)
    ELSE IF set.ranges_null \/ Len(set.ranges) = 0
    THEN Done(s)
    ELSE AddRangesFrom(s, set.ranges, 0)

\* computes a position and returns: nothing is truncated, split or deleted
g_index_set_remove_range(s, range) == Done(s)

\* no g_index_set_is_mutable check here
g_index_set_remove_index(s, index_) ==
    g_index_set_remove_range(s, G_RANGE_INIT(index_, 1))

-----------------------------------------------------------------------------
(* Query *)

RECURSIVE SumLengths(_, _)
SumLengths(ranges, i) ==
    IF i >= Len(ranges)
    THEN 0
    ELSE UAdd(g_array_index(ranges, i).length, SumLengths(ranges, i + 1))

g_index_set_get_size(s) ==
    IF s.ranges_null \/ Len(s.ranges) = 0 THEN 0 ELSE SumLengths(s.ranges, 0)

g_index_set_get_first_index(s) ==
    IF s.ranges_null \/ Len(s.ranges) = 0
    THEN G_INDEX_SET_NOT_FOUND
    ELSE g_array_index(s.ranges, 0).location

g_index_set_get_last_index(s) ==
    IF s.ranges_null \/ Len(s.ranges) = 0
    THEN G_INDEX_SET_NOT_FOUND
    ELSE USub(g_range_get_max(g_array_index(s.ranges, Len(s.ranges) - 1)), 1)

g_index_set_contains_index(s, index_) ==
    IF s.ranges_null \/ Len(s.ranges) = 0
    THEN FALSE
    ELSE LET pos == g_index_set_get_position(s.ranges, index_)
         IN  IF pos >= Len(s.ranges)
             THEN FALSE
             ELSE g_range_contains_location(g_array_index(s.ranges, pos), index_)

\* mutant of g_index_set_contains_range: only the start of the range is looked up
g_index_set_contains_range_StartOnly(s, range) ==
    g_index_set_contains_index(s, range.location)

g_index_set_contains_range(s, range) ==
    IF range.length = 0
    THEN TRUE
    ELSE IF range.location > USub(G_INDEX_SET_NOT_FOUND, range.length)
    THEN FALSE
    ELSE IF s.ranges_null \/ Len(s.ranges) = 0
    THEN FALSE
    ELSE LET pos == g_index_set_get_position(s.ranges, range.location)
         IN  IF pos >= Len(s.ranges)
             THEN FALSE
             ELSE LET r == g_array_index(s.ranges, pos)
                  IN  /\ g_range_contains_location(r, range.location)
                      /\ g_range_contains_location(r, USub(g_range_get_max(range), 1))

\* GIndexSetPredicate
G_INDEX_SET_PREDICATE_LESS_THAN == "LESS_THAN"

G_INDEX_SET_PREDICATE_LESS_THAN_OR_EQUAL == "LESS_THAN_OR_EQUAL"

G_INDEX_SET_PREDICATE_GREATER_THAN_OR_EQUAL == "GREATER_THAN_OR_EQUAL"

G_INDEX_SET_PREDICATE_GREATER_THAN == "GREATER_THAN"

GIndexSetPredicate ==
    {G_INDEX_SET_PREDICATE_LESS_THAN, G_INDEX_SET_PREDICATE_LESS_THAN_OR_EQUAL,
     G_INDEX_SET_PREDICATE_GREATER_THAN_OR_EQUAL, G_INDEX_SET_PREDICATE_GREATER_THAN}

\* case G_INDEX_SET_PREDICATE_GREATER_THAN_OR_EQUAL of g_index_set_get_index
GetIndexGreaterOrEqual(s, index_) ==
    IF index_ = G_INDEX_SET_NOT_FOUND
    THEN G_INDEX_SET_NOT_FOUND
    ELSE LET pos == g_index_set_get_position(s.ranges, index_)
         IN  IF pos >= Len(s.ranges)
             THEN G_INDEX_SET_NOT_FOUND
             ELSE LET r == g_array_index(s.ranges, pos)
                  IN  IF g_range_contains_location(r, index_)
                      THEN index_
                      ELSE r.location

\* case G_INDEX_SET_PREDICATE_LESS_THAN_OR_EQUAL of g_index_set_get_index
GetIndexLessOrEqual(s, index_) ==
    LET pos == g_index_set_get_position(s.ranges, index_)
    IN  IF pos >= Len(s.ranges)
        THEN G_INDEX_SET_NOT_FOUND
        ELSE IF g_range_contains_location(g_array_index(s.ranges, pos), index_)
        THEN index_
        ELSE IF pos = 0
        THEN G_INDEX_SET_NOT_FOUND
        ELSE USub(g_range_get_max(g_array_index(s.ranges, pos - 1)), 1)

g_index_set_get_index(s, predicate, index_) ==
    IF s.ranges_null \/ Len(s.ranges) = 0
    THEN G_INDEX_SET_NOT_FOUND
    ELSE CASE predicate = G_INDEX_SET_PREDICATE_GREATER_THAN ->
                IF UAdd(index_, 1) = G_INDEX_SET_NOT_FOUND
                THEN G_INDEX_SET_NOT_FOUND
                ELSE GetIndexGreaterOrEqual(s, UAdd(index_, 1))
           [] predicate = G_INDEX_SET_PREDICATE_GREATER_THAN_OR_EQUAL ->
                GetIndexGreaterOrEqual(s, index_)
           [] predicate = G_INDEX_SET_PREDICATE_LESS_THAN ->
                IF index_ = 0
                THEN G_INDEX_SET_NOT_FOUND
                ELSE GetIndexLessOrEqual(s, USub(index_, 1))
           [] predicate = G_INDEX_SET_PREDICATE_LESS_THAN_OR_EQUAL ->
                GetIndexLessOrEqual(s, index_)
           [] OTHER -> G_INDEX_SET_NOT_FOUND

\* GIndexSetEnumerateFlags
G_INDEX_SET_ENUMERATE_NONE == 0

G_INDEX_SET_ENUMERATE_REVERSE == 1

GIndexSetEnumerateFlags == {G_INDEX_SET_ENUMERATE_NONE, G_INDEX_SET_ENUMERATE_REVERSE}

\* the callback that never signals stop has a cut-off no index equals
NoCutOff == G_MAXUINT + 1

CutOffs == GUint \cup {NoCutOff}

\* mutant of GIndexSetEnumerateFunc: the callback's return value is ignored
GIndexSetEnumerateFunc_Ignored(index_, cut_off) == FALSE

\* the callback: TRUE (stop) at the cut-off index, FALSE (go on) otherwise
GIndexSetEnumerateFunc(index_, cut_off) == index_ = cut_off

\* mutant of EnumerateStart: every stored range is entered at index 0
EnumerateStart_Zero(r_range, is_reverse) == 0

\* r_start of the inner loop
EnumerateStart(r_range, is_reverse) ==
    IF is_reverse
    THEN USub(g_range_get_max(r_range), 1)
    ELSE r_range.location

\* r_stop of the inner loop
EnumerateStop(r_range, is_reverse) ==
    IF is_reverse
    THEN r_range.location
    ELSE g_range_get_max(r_range)

\* the inner loop over the indices of one stored range; visited is the
\* sequence of indices the callback has been called with
RECURSIVE EnumerateIndices(_, _, _, _, _)
EnumerateIndices(j, r_stop, is_reverse, cut_off, visited) ==
    IF ~(IF is_reverse THEN j >= r_stop ELSE j < r_stop)
    THEN [visited |-> visited, should_stop |-> FALSE]
    ELSE LET seen == Append(visited, j)
         IN  IF GIndexSetEnumerateFunc(j, cut_off)
             THEN [visited |-> seen, should_stop |-> TRUE]
             ELSE IF is_reverse
             THEN IF j = 0
                  THEN [visited |-> seen, should_stop |-> FALSE]
                  ELSE EnumerateIndices(USub(j, 1), r_stop, is_reverse, cut_off, seen)
             ELSE EnumerateIndices(UAdd(j, 1), r_stop, is_reverse, cut_off, seen)

\* the outer loop over the stored ranges
RECURSIVE EnumerateRanges(_, _, _, _, _, _)
EnumerateRanges(ranges, i, stop, is_reverse, cut_off, visited) ==
    IF ~(IF is_reverse THEN i >= stop ELSE i < stop)
    THEN visited
    ELSE LET r_range == g_array_index(ranges, i)
             inner == EnumerateIndices(EnumerateStart(r_range, is_reverse),
                                       EnumerateStop(r_range, is_reverse),
                                       is_reverse, cut_off, visited)
         IN  IF inner.should_stop
             THEN inner.visited
             ELSE IF is_reverse
             THEN IF i = 0
                  THEN inner.visited
                  ELSE EnumerateRanges(ranges, i - 1, stop, is_reverse, cut_off,
                                       inner.visited)
             ELSE EnumerateRanges(ranges, i + 1, stop, is_reverse, cut_off,
                                  inner.visited)

\* the sequence of indices func is called with
g_index_set_enumerate_in_range(s, range, flags, cut_off) ==
    IF s.ranges_null \/ Len(s.ranges) = 0
    THEN << >>
    ELSE IF range.length = 0
    THEN << >>
    ELSE LET is_reverse == flags = G_INDEX_SET_ENUMERATE_REVERSE
             found == g_index_set_get_position(s.ranges, range.location)
             start == IF found >= Len(s.ranges) THEN 0 ELSE found
             stop  == g_index_set_get_position(s.ranges,
                                               USub(g_range_get_max(range), 1))
         IN  EnumerateRanges(s.ranges, start, stop, is_reverse, cut_off, << >>)

g_index_set_enumerate(s, flags, cut_off) ==
    LET first == g_index_set_get_first_index(s)
        last  == g_index_set_get_last_index(s)
    IN  IF first = G_INDEX_SET_NOT_FOUND
        THEN << >>
        ELSE g_index_set_enumerate_in_range(
                 s, G_RANGE_INIT(first, UAdd(USub(last, first), 1)), flags, cut_off)

-----------------------------------------------------------------------------
(* Arguments a client passes *)

\* index arrays and variable argument lists of up to MaxN indices
IndexLists == UNION {[1 .. n -> GUint] : n \in 0 .. MaxN}

\* the other sets a client holds when it calls g_index_set_add_set or
\* g_index_set_init_with_set: freshly allocated, or initialized by one call
OtherSets ==
    {res.set : res \in
        {r \in ({Done(g_index_set_alloc)}
                \cup {g_index_set_init(g_index_set_alloc)}
                \cup {g_index_set_init_with_index(g_index_set_alloc, i) : i \in GUint}
                \cup {g_index_set_init_with_indicesv(g_index_set_alloc, Len(l), l) :
                         l \in IndexLists}
                \cup {g_index_set_init_with_range(g_index_set_alloc, rg) :
                         rg \in GRangeT}) :
            r.outcome = "ok"}}

-----------------------------------------------------------------------------
(* Reference counting *)

\* most threads sharing one reference counted object
MaxThreads == 3

Threads == 1 .. MaxThreads

\* most references outstanding on one object at a time
MaxRefs == 5

\* a thread: where it is in a call, the references it holds, and the
\* ref_count it last read (the local variable of g_ref_release)
IdleThread == [pc |-> "idle", held |-> 0, ref_count |-> 0]

NoThreads == [t \in Threads |-> IdleThread]

\* the thread that allocated the object owns the one reference it starts with
OwnerThreads == [NoThreads EXCEPT ![1] = [IdleThread EXCEPT !.held = 1]]

RECURSIVE HeldUpTo(_, _)
HeldUpTo(th, n) == IF n = 0 THEN 0 ELSE th[n].held + HeldUpTo(th, n - 1)

\* the references the threads hold between them
Held(th) == HeldUpTo(th, MaxThreads)

\* g_atomic_int_add: the value stored
g_atomic_int_add(count, val) == count + val

\* mutant of g_atomic_int_dec_and_test: every decrement reports zero
g_atomic_int_dec_and_test_Always(count) == [value |-> count - 1, is_zero |-> TRUE]

\* g_atomic_int_dec_and_test: the value stored, and whether it is zero
g_atomic_int_dec_and_test(count) == [value |-> count - 1, is_zero |-> count - 1 = 0]

\* mutant of g_atomic_int_compare_and_exchange: stores without comparing
g_atomic_int_compare_and_exchange_Blind(current, oldval, newval) ==
    [value |-> newval, ok |-> TRUE]

\* mutant: the exchange is never made
g_atomic_int_compare_and_exchange_Never(current, oldval, newval) ==
    [value |-> current, ok |-> FALSE]

\* g_atomic_int_compare_and_exchange: the value stored, and whether it swapped
g_atomic_int_compare_and_exchange(current, oldval, newval) ==
    [value |-> IF current = oldval THEN newval ELSE current, ok |-> current = oldval]

\* the ref_count of a GIndexSet out of g_index_set_alloc, with the number of
\* times its range store and the set itself have been released
IndexSetArea == [ref_count |-> 1, ranges_unref |-> 0, freed |-> 0]

g_index_set_ref(a) == [a EXCEPT !.ref_count = g_atomic_int_add(@, 1)]

\* the body of the if in g_index_set_unref: the last reference is gone
IndexSetFree(a, s) ==
    [a EXCEPT !.ranges_unref = IF s.ranges_null THEN @ ELSE @ + 1,
              !.freed = @ + 1]

\* the pointer g_ref_alloc_internal returns for alloc_size 0
G_REF_NULL == -1

\* a reference counted memory area: the GRef in front of it (ref_count,
\* alloc_size, notify: whether it is not NULL), the pointer the client has
\* (ptr), the registry of live areas of a G_ENABLE_DEBUG build, and the
\* number of times the notify has run and the block has been freed
g_ref_alloc_internal(alloc_size, atomic, clear, notify, debug) ==
    IF alloc_size = 0
    THEN [ref_count |-> 0, alloc_size |-> 0, notify |-> FALSE, clear |-> clear,
          ptr |-> G_REF_NULL, debug |-> debug, registry |-> {},
          notified |-> 0, freed |-> 0]
    ELSE [ref_count |-> IF atomic THEN -1 ELSE 1, alloc_size |-> alloc_size,
          notify |-> notify, clear |-> clear,
          ptr |-> 0, debug |-> debug, registry |-> IF debug THEN {0} ELSE {},
          notified |-> 0, freed |-> 0]

g_ref_alloc(alloc_size, notify, debug) ==
    g_ref_alloc_internal(alloc_size, FALSE, FALSE, notify, debug)

g_ref_alloc0(alloc_size, notify, debug) ==
    g_ref_alloc_internal(alloc_size, FALSE, TRUE, notify, debug)

g_atomic_ref_alloc(alloc_size, notify, debug) ==
    g_ref_alloc_internal(alloc_size, TRUE, FALSE, notify, debug)

g_atomic_ref_alloc0(alloc_size, notify, debug) ==
    g_ref_alloc_internal(alloc_size, TRUE, TRUE, notify, debug)

g_is_ref(a, ref) == ref \in a.registry

g_ref_destroy(a, ref) ==
    [a EXCEPT !.notified = IF a.notify THEN @ + 1 ELSE @,
              !.registry = IF a.debug THEN @ \ {ref} ELSE @,
              !.freed = @ + 1]

\* mutant of g_ref_acquire: the count is left as it is
g_ref_acquire_NoCount(a, ref) == a

g_ref_acquire(a, ref) ==
    IF a.debug /\ ~ g_is_ref(a, ref)
    THEN a
    ELSE IF a.ref_count < 0
    THEN [a EXCEPT !.ref_count = g_atomic_int_add(@, -1)]
    ELSE [a EXCEPT !.ref_count = @ + 1]

\* mutant of g_ref_release: the count is stepped towards 0 and the area is
\* never destroyed
g_ref_release_NoDestroy(a, ref) ==
    [area |-> [a EXCEPT !.ref_count = IF @ > 0 THEN @ - 1 ELSE @ + 1],
     outcome |-> "ok"]

\* g_ref_release run from start to end by one thread: area is the area
\* afterwards, outcome is "refused" for a pointer the registry does not
\* know and "assert" for a ref_count of 0
g_ref_release(a, ref) ==
    IF a.debug /\ ~ g_is_ref(a, ref)
    THEN [area |-> a, outcome |-> "refused"]
    ELSE IF a.ref_count = 0
    THEN [area |-> a, outcome |-> "assert"]
    ELSE IF a.ref_count = -1 \/ a.ref_count = 1
    THEN [area |-> g_ref_destroy(a, ref), outcome |-> "ok"]
    ELSE IF a.ref_count > 0
    THEN [area |-> [a EXCEPT !.ref_count = @ - 1], outcome |-> "ok"]
    ELSE [area |-> [a EXCEPT !.ref_count =
                        g_atomic_int_compare_and_exchange(
                            @, a.ref_count, a.ref_count + 1).value],
          outcome |-> "ok"]

\* mutant of g_ref_make_atomic: the area starts again with one reference
g_ref_make_atomic_Reset(a, ref) == [a EXCEPT !.ref_count = -1]

g_ref_make_atomic(a, ref) ==
    IF a.debug /\ ~ g_is_ref(a, ref)
    THEN a
    ELSE IF a.ref_count < 0
    THEN a
    ELSE [a EXCEPT !.ref_count = - a.ref_count]

\* g_realloc may move the block (moved): the pointer returned is then a new
\* one; the registry is not told
g_ref_realloc(a, new_size, moved) ==
    [a EXCEPT !.ptr = IF moved THEN @ + 1 ELSE @,
              !.ref_count = a.ref_count,
              !.notify = a.notify,
              !.alloc_size = new_size]

-----------------------------------------------------------------------------
(* The client *)

NoRange == G_RANGE_INIT(0, 0)

NoCall ==
    [op |-> "none", index_ |-> 0, range |-> NoRange, indices |-> << >>,
     set |-> g_index_set_alloc, outcome |-> "ok"]

Init ==
    /\ index_set = g_index_set_alloc
    /\ pc = "ready"
    /\ call = NoCall
    /\ pre = g_index_set_alloc
    /\ area = IndexSetArea
    /\ threads = OwnerThreads

\* one call of a public function: res is what the function did to index_set
Invoke(op, res, idx, rg, lst, st) ==
    /\ index_set' = res.set
    /\ pre' = index_set
    /\ call' = [op |-> op, index_ |-> idx, range |-> rg, indices |-> lst,
                set |-> st, outcome |-> res.outcome]
    /\ pc' = IF res.outcome \in {"assert", "segv"} THEN "aborted" ELSE "returned"
    /\ UNCHANGED refvars

InitSet ==
    /\ pc = "ready"
    /\ Invoke("init", g_index_set_init(index_set), 0, NoRange, << >>, g_index_set_alloc)

InitEmpty ==
    /\ pc = "ready"
    /\ Invoke("init_empty", g_index_set_init_empty(index_set),
           0, NoRange, << >>, g_index_set_alloc)

InitWithIndex ==
    /\ pc = "ready"
    /\ \E i \in GUint :
        Invoke("init_with_index", g_index_set_init_with_index(index_set, i),
               i, NoRange, << >>, g_index_set_alloc)

InitWithIndices ==
    /\ pc = "ready"
    /\ \E l \in IndexLists :
        Invoke("init_with_indices", g_index_set_init_with_indices(index_set, l),
               0, NoRange, l, g_index_set_alloc)

InitWithIndicesv ==
    /\ pc = "ready"
    /\ \E l \in IndexLists :
        Invoke("init_with_indicesv",
               g_index_set_init_with_indicesv(index_set, Len(l), l),
               0, NoRange, l, g_index_set_alloc)

InitWithRange ==
    /\ pc = "ready"
    /\ \E rg \in GRangeT :
        Invoke("init_with_range", g_index_set_init_with_range(index_set, rg),
               0, rg, << >>, g_index_set_alloc)

InitWithSet ==
    /\ pc = "ready"
    /\ \E st \in OtherSets :
        Invoke("init_with_set", g_index_set_init_with_set(index_set, st),
               0, NoRange, << >>, st)

MakeImmutable ==
    /\ pc = "ready"
    /\ Invoke("make_immutable", Done(g_index_set_make_immutable(index_set)),
           0, NoRange, << >>, g_index_set_alloc)

AddIndex ==
    /\ pc = "ready"
    /\ \E i \in GUint :
        Invoke("add_index", g_index_set_add_index(index_set, i),
               i, NoRange, << >>, g_index_set_alloc)

AddIndices ==
    /\ pc = "ready"
    /\ \E l \in IndexLists :
        Invoke("add_indices", g_index_set_add_indices(index_set, l),
               0, NoRange, l, g_index_set_alloc)

AddIndicesv ==
    /\ pc = "ready"
    /\ \E l \in IndexLists :
        Invoke("add_indicesv", g_index_set_add_indicesv(index_set, Len(l), l),
               0, NoRange, l, g_index_set_alloc)

AddRange ==
    /\ pc = "ready"
    /\ \E rg \in GRangeT :
        Invoke("add_range", g_index_set_add_range(index_set, rg),
               0, rg, << >>, g_index_set_alloc)

AddSet ==
    /\ pc = "ready"
    /\ \E st \in OtherSets :
        Invoke("add_set", g_index_set_add_set(index_set, st),
               0, NoRange, << >>, st)

RemoveIndex ==
    /\ pc = "ready"
    /\ \E i \in GUint :
        Invoke("remove_index", g_index_set_remove_index(index_set, i),
               i, NoRange, << >>, g_index_set_alloc)

\* the call has returned; the client goes on to its next call
Resume ==
    /\ pc = "returned"
    /\ pc' = "ready"
    /\ call' = NoCall
    /\ pre' = index_set
    /\ UNCHANGED <<index_set, area, threads>>

Next ==
    \/ InitSet
    \/ InitEmpty
    \/ InitWithIndex
    \/ InitWithIndices
    \/ InitWithIndicesv
    \/ InitWithRange
    \/ InitWithSet
    \/ MakeImmutable
    \/ AddIndex
    \/ AddIndices
    \/ AddIndicesv
    \/ AddRange
    \/ AddSet
    \/ RemoveIndex
    \/ Resume

Spec == Init /\ [][Next]_vars

-----------------------------------------------------------------------------
(* The client that also passes NULL *)

\* one call of a public function with NULL for index_set: the client's set
\* is not an argument of the call, pre records the NULL
InvokeOnNull(op, res, idx, rg, lst, st) ==
    /\ index_set' = index_set
    /\ pre' = res.set
    /\ call' = [op |-> op, index_ |-> idx, range |-> rg, indices |-> lst,
                set |-> st, outcome |-> res.outcome]
    /\ pc' = IF res.outcome \in {"assert", "segv"} THEN "aborted" ELSE "returned"
    /\ UNCHANGED refvars

NullIndexSet ==
    /\ pc = "ready"
    /\ \/ InvokeOnNull("init", g_index_set_init(NullSet),
                       0, NoRange, << >>, g_index_set_alloc)
       \/ InvokeOnNull("init_empty", g_index_set_init_empty(NullSet),
                       0, NoRange, << >>, g_index_set_alloc)
       \/ \E i \in GUint :
            \/ InvokeOnNull("init_with_index", g_index_set_init_with_index(NullSet, i),
                            i, NoRange, << >>, g_index_set_alloc)
            \/ InvokeOnNull("add_index", g_index_set_add_index(NullSet, i),
                            i, NoRange, << >>, g_index_set_alloc)
       \/ \E l \in IndexLists :
            \/ InvokeOnNull("init_with_indices", g_index_set_init_with_indices(NullSet, l),
                            0, NoRange, l, g_index_set_alloc)
            \/ InvokeOnNull("init_with_indicesv",
                            g_index_set_init_with_indicesv(NullSet, Len(l), l),
                            0, NoRange, l, g_index_set_alloc)
            \/ InvokeOnNull("add_indices", g_index_set_add_indices(NullSet, l),
                            0, NoRange, l, g_index_set_alloc)
            \/ InvokeOnNull("add_indicesv",
                            g_index_set_add_indicesv(NullSet, Len(l), l),
                            0, NoRange, l, g_index_set_alloc)
       \/ \E rg \in GRangeT :
            \/ InvokeOnNull("init_with_range", g_index_set_init_with_range(NullSet, rg),
                            0, rg, << >>, g_index_set_alloc)
            \/ InvokeOnNull("add_range", g_index_set_add_range(NullSet, rg),
                            0, rg, << >>, g_index_set_alloc)
       \/ \E st \in OtherSets :
            \/ InvokeOnNull("init_with_set", g_index_set_init_with_set(NullSet, st),
                            0, NoRange, << >>, st)
            \/ InvokeOnNull("add_set", g_index_set_add_set(NullSet, st),
                            0, NoRange, << >>, st)

\* g_index_set_init_with_indicesv and g_index_set_add_indicesv with NULL for
\* indices; the call record keeps n_indices in index_
NullIndexArray ==
    /\ pc = "ready"
    /\ \E n \in 0 .. MaxN :
        \/ Invoke("init_with_indicesv",
                  g_index_set_init_with_indicesv(index_set, n, NullIndices),
                  n, NoRange, NullIndices, g_index_set_alloc)
        \/ Invoke("add_indicesv",
                  g_index_set_add_indicesv(index_set, n, NullIndices),
                  n, NoRange, NullIndices, g_index_set_alloc)

\* g_index_set_init_with_range and g_index_set_add_range with NULL for range
NullRangeArgument ==
    /\ pc = "ready"
    /\ \/ Invoke("init_with_range", g_index_set_init_with_range(index_set, NullRange),
                 0, NullRange, << >>, g_index_set_alloc)
       \/ Invoke("add_range", g_index_set_add_range(index_set, NullRange),
                 0, NullRange, << >>, g_index_set_alloc)

\* g_index_set_init_with_set and g_index_set_add_set with NULL for set
NullSetArgument ==
    /\ pc = "ready"
    /\ \/ Invoke("init_with_set", g_index_set_init_with_set(index_set, NullSet),
                 0, NoRange, << >>, NullSet)
       \/ Invoke("add_set", g_index_set_add_set(index_set, NullSet),
                 0, NoRange, << >>, NullSet)

NullNext ==
    \/ Next
    \/ NullIndexSet
    \/ NullIndexArray
    \/ NullRangeArgument
    \/ NullSetArgument

NullSpec == Init /\ [][NullNext]_vars

-----------------------------------------------------------------------------
(* The client that queries a set it has built *)

\* most add calls made to build a queried set
MaxBuilt == 3

\* the sets g_index_set_init followed by up to n calls of g_index_set_add_range
\* gives (g_index_set_add_index is g_index_set_add_range of one index)
RECURSIVE AddedSets(_, _)
AddedSets(S, n) ==
    IF n = 0
    THEN S
    ELSE AddedSets(S \cup {res.set : res \in
                               {r \in {g_index_set_add_range(s, rg) :
                                          s \in S, rg \in GRangeT} :
                                   r.outcome = "ok"}},
                   n - 1)

\* the sets a client queries: built by adds, or by one of the init functions
QuerySets ==
    AddedSets({g_index_set_init(g_index_set_alloc).set}, MaxBuilt) \cup OtherSets

QueryInit ==
    /\ index_set \in QuerySets
    /\ pc = "ready"
    /\ call = NoCall
    /\ pre = index_set
    /\ area = IndexSetArea
    /\ threads = OwnerThreads

\* one call of a query function: the set is const, call records what was
\* asked, the value returned and the indices the callback was called with
Query(op, idx, rg, predicate, flags, cut_off, result, visited) ==
    /\ call' = [op |-> op, index_ |-> idx, range |-> rg, predicate |-> predicate,
                flags |-> flags, cut_off |-> cut_off, result |-> result,
                visited |-> visited]
    /\ pc' = "returned"
    /\ UNCHANGED <<index_set, pre, area, threads>>

ContainsRange ==
    /\ pc = "ready"
    /\ \E rg \in GRangeT :
        Query("contains_range", 0, rg, "none", G_INDEX_SET_ENUMERATE_NONE, NoCutOff,
              g_index_set_contains_range(index_set, rg), << >>)

GetIndex ==
    /\ pc = "ready"
    /\ \E predicate \in GIndexSetPredicate, i \in GUint :
        Query("get_index", i, NoRange, predicate, G_INDEX_SET_ENUMERATE_NONE,
              NoCutOff, g_index_set_get_index(index_set, predicate, i), << >>)

Enumerate ==
    /\ pc = "ready"
    /\ \E flags \in GIndexSetEnumerateFlags, cut_off \in CutOffs :
        Query("enumerate", 0, NoRange, "none", flags, cut_off, 0,
              g_index_set_enumerate(index_set, flags, cut_off))

EnumerateInRange ==
    /\ pc = "ready"
    /\ \E rg \in GRangeT, flags \in GIndexSetEnumerateFlags, cut_off \in CutOffs :
        Query("enumerate_in_range", 0, rg, "none", flags, cut_off, 0,
              g_index_set_enumerate_in_range(index_set, rg, flags, cut_off))

\* the documented loops: cur = first (last) index, then get_index with
\* GREATER_THAN (LESS_THAN) while cur != G_INDEX_SET_NOT_FOUND; result is cur
IterateStart ==
    /\ pc = "ready"
    /\ \E predicate \in {G_INDEX_SET_PREDICATE_GREATER_THAN,
                         G_INDEX_SET_PREDICATE_LESS_THAN} :
        /\ call' = [op |-> "iterate", index_ |-> 0, range |-> NoRange,
                    predicate |-> predicate, flags |-> G_INDEX_SET_ENUMERATE_NONE,
                    cut_off |-> NoCutOff,
                    result |-> IF predicate = G_INDEX_SET_PREDICATE_GREATER_THAN
                               THEN g_index_set_get_first_index(index_set)
                               ELSE g_index_set_get_last_index(index_set),
                    visited |-> << >>]
        /\ pc' = "iterating"
        /\ UNCHANGED <<index_set, pre, area, threads>>

IterateNext ==
    /\ pc = "iterating"
    /\ call.result # G_INDEX_SET_NOT_FOUND
    /\ Len(call.visited) <= G_MAXUINT
    /\ call' = [call EXCEPT
                   !.visited = Append(@, call.result),
                   !.result = g_index_set_get_index(index_set, call.predicate,
                                                    call.result)]
    /\ UNCHANGED <<index_set, pc, pre, area, threads>>

IterateEnd ==
    /\ pc = "iterating"
    /\ call.result = G_INDEX_SET_NOT_FOUND
    /\ pc' = "returned"
    /\ UNCHANGED <<index_set, call, pre, area, threads>>

QueryNext ==
    \/ ContainsRange
    \/ GetIndex
    \/ Enumerate
    \/ EnumerateInRange
    \/ IterateStart
    \/ IterateNext
    \/ IterateEnd
    \/ Resume

QuerySpec == QueryInit /\ [][QueryNext]_vars

-----------------------------------------------------------------------------
(* Threads sharing one GIndexSet through g_index_set_ref and               *)
(* g_index_set_unref: a thread calls them on a reference it holds, and     *)
(* hands the reference it gets from g_index_set_ref to a thread u          *)

IndexSetRefInit ==
    /\ index_set \in OtherSets
    /\ pc = "ready"
    /\ call = NoCall
    /\ pre = index_set
    /\ area = IndexSetArea
    /\ threads = OwnerThreads

IndexSetRef ==
    \E t \in Threads, u \in Threads :
        /\ threads[t].pc = "idle"
        /\ threads[t].held > 0
        /\ Held(threads) < MaxRefs
        /\ area' = g_index_set_ref(area)
        /\ threads' = [threads EXCEPT ![u].held = @ + 1]
        /\ UNCHANGED <<index_set, pc, call, pre>>

\* g_atomic_int_dec_and_test of g_index_set_unref
IndexSetUnref ==
    \E t \in Threads :
        /\ threads[t].pc = "idle"
        /\ threads[t].held > 0
        /\ LET dec == g_atomic_int_dec_and_test(area.ref_count)
           IN  /\ area' = [area EXCEPT !.ref_count = dec.value]
               /\ threads' = [threads EXCEPT
                                 ![t].held = @ - 1,
                                 ![t].pc = IF dec.is_zero THEN "free" ELSE "idle"]
        /\ UNCHANGED <<index_set, pc, call, pre>>

\* g_array_unref and g_slice_free of g_index_set_unref
IndexSetUnrefFree ==
    \E t \in Threads :
        /\ threads[t].pc = "free"
        /\ area' = IndexSetFree(area, index_set)
        /\ threads' = [threads EXCEPT ![t].pc = "idle"]
        /\ UNCHANGED <<index_set, pc, call, pre>>

IndexSetRefNext ==
    \/ IndexSetRef
    \/ IndexSetUnref
    \/ IndexSetUnrefFree

IndexSetRefSpec == IndexSetRefInit /\ [][IndexSetRefNext]_vars

-----------------------------------------------------------------------------
(* One client of a reference counted memory area: every call runs from     *)
(* start to end; the client calls only while it holds a reference, and     *)
(* always with the pointer it was last given                               *)

\* largest alloc_size asked for
MaxSize == 2

AllocSizes == 0 .. MaxSize

\* most g_ref_realloc calls on one area
MaxReallocs == 2

\* the areas the four allocation functions return, in a build with and
\* without G_ENABLE_DEBUG, except NULL
RefAreas ==
    {a \in UNION {{g_ref_alloc(size, notify, debug),
                   g_ref_alloc0(size, notify, debug),
                   g_atomic_ref_alloc(size, notify, debug),
                   g_atomic_ref_alloc0(size, notify, debug)} :
                      size \in AllocSizes, notify \in BOOLEAN, debug \in BOOLEAN} :
        a.ptr # G_REF_NULL}

\* what the client has called so far: before is the area before the call
RefCall(op, acquired, released, reallocs, before, outcome) ==
    [op |-> op, acquired |-> acquired, released |-> released,
     reallocs |-> reallocs, before |-> before, outcome |-> outcome]

RefInit ==
    /\ area \in RefAreas
    /\ pc = "ready"
    /\ call = RefCall("alloc", 0, 0, 0, area, "ok")
    /\ index_set = g_index_set_alloc
    /\ pre = g_index_set_alloc
    /\ threads = OwnerThreads

\* the client still holds a reference
RefHeld == 1 + call.acquired - call.released > 0

RefAcquire ==
    /\ pc = "ready"
    /\ RefHeld
    /\ call.acquired < MaxRefs
    /\ area' = g_ref_acquire(area, area.ptr)
    /\ call' = RefCall("g_ref_acquire", call.acquired + 1, call.released,
                       call.reallocs, area, "ok")
    /\ UNCHANGED <<index_set, pc, pre, threads>>

RefRelease ==
    /\ pc = "ready"
    /\ RefHeld
    /\ LET res == g_ref_release(area, area.ptr)
       IN  /\ area' = res.area
           /\ call' = RefCall("g_ref_release", call.acquired, call.released + 1,
                              call.reallocs, area, res.outcome)
           /\ pc' = IF res.outcome = "assert" THEN "aborted" ELSE "ready"
    /\ UNCHANGED <<index_set, pre, threads>>

RefRealloc ==
    /\ pc = "ready"
    /\ RefHeld
    /\ call.reallocs < MaxReallocs
    /\ \E new_size \in AllocSizes \ {0}, moved \in BOOLEAN :
        area' = g_ref_realloc(area, new_size, moved)
    /\ call' = RefCall("g_ref_realloc", call.acquired, call.released,
                       call.reallocs + 1, area, "ok")
    /\ UNCHANGED <<index_set, pc, pre, threads>>

RefNext ==
    \/ RefAcquire
    \/ RefRelease
    \/ RefRealloc

RefSpec == RefInit /\ [][RefNext]_vars

\* the client that also calls g_ref_make_atomic
RefMakeAtomic ==
    /\ pc = "ready"
    /\ RefHeld
    /\ area' = g_ref_make_atomic(area, area.ptr)
    /\ call' = RefCall("g_ref_make_atomic", call.acquired, call.released,
                       call.reallocs, area, "ok")
    /\ UNCHANGED <<index_set, pc, pre, threads>>

MakeAtomicNext ==
    \/ RefNext
    \/ RefMakeAtomic

MakeAtomicSpec == RefInit /\ [][MakeAtomicNext]_vars

-----------------------------------------------------------------------------
(* Threads sharing one atomically reference counted area: g_ref_acquire    *)
(* and g_ref_release run one memory access at a time                       *)

\* most references held or being acquired by the threads at a time
MaxShared == 3

AtomicRefInit ==
    /\ area \in {a \in RefAreas : a.ref_count < 0 /\ a.alloc_size = MaxSize}
    /\ pc = "ready"
    /\ call = NoCall
    /\ index_set = g_index_set_alloc
    /\ pre = g_index_set_alloc
    /\ threads = OwnerThreads

\* the references held and those being acquired
Claimed(th) == Held(th) + Cardinality({t \in Threads : th[t].pc = "acquire"})

\* g_atomic_int_get of g_ref_acquire
AtomicAcquireRead ==
    \E t \in Threads :
        /\ threads[t].pc = "idle"
        /\ threads[t].held > 0
        /\ Claimed(threads) < MaxShared
        /\ threads' = [threads EXCEPT ![t].pc = "acquire",
                                      ![t].ref_count = area.ref_count]
        /\ UNCHANGED <<index_set, pc, call, pre, area>>

\* g_atomic_int_add, or ref_count += 1, of g_ref_acquire; the reference goes
\* to thread u
AtomicAcquireAdd ==
    \E t \in Threads, u \in Threads :
        /\ threads[t].pc = "acquire"
        /\ area' = IF threads[t].ref_count < 0
                   THEN [area EXCEPT !.ref_count = g_atomic_int_add(@, -1)]
                   ELSE [area EXCEPT !.ref_count = @ + 1]
        /\ threads' = [[threads EXCEPT ![t].pc = "idle", ![t].ref_count = 0]
                           EXCEPT ![u].held = @ + 1]
        /\ UNCHANGED <<index_set, pc, call, pre>>

\* g_atomic_int_get and g_assert of g_ref_release, also after goto again
AtomicReleaseRead ==
    \E t \in Threads :
        /\ \/ threads[t].pc = "idle" /\ threads[t].held > 0
           \/ threads[t].pc = "again"
        /\ threads' = [threads EXCEPT
                          ![t].pc = IF area.ref_count = 0 THEN "aborted" ELSE "release",
                          ![t].ref_count = area.ref_count]
        /\ UNCHANGED <<index_set, pc, call, pre, area>>

\* the if of g_ref_release: destroy, decrement, or compare and exchange
AtomicReleaseUpdate ==
    \E t \in Threads :
        /\ threads[t].pc = "release"
        /\ LET ref_count == threads[t].ref_count
               cas == g_atomic_int_compare_and_exchange(area.ref_count, ref_count,
                                                        ref_count + 1)
               released == [threads EXCEPT ![t].pc = "idle", ![t].held = @ - 1,
                                           ![t].ref_count = 0]
           IN  IF ref_count = -1 \/ ref_count = 1
               THEN /\ area' = g_ref_destroy(area, area.ptr)
                    /\ threads' = released
               ELSE IF ref_count > 0
               THEN /\ area' = [area EXCEPT !.ref_count = @ - 1]
                    /\ threads' = released
               ELSE /\ area' = [area EXCEPT !.ref_count = cas.value]
                    /\ threads' = IF cas.ok
                                  THEN released
                                  ELSE [threads EXCEPT ![t].pc = "again"]
        /\ UNCHANGED <<index_set, pc, call, pre>>

AtomicRefNext ==
    \/ AtomicAcquireRead
    \/ AtomicAcquireAdd
    \/ AtomicReleaseRead
    \/ AtomicReleaseUpdate

AtomicRefSpec == AtomicRefInit /\ [][AtomicRefNext]_vars

\* a thread that has failed the compare and exchange reads the count again
RetryRead ==
    /\ AtomicReleaseRead
    /\ \E t \in Threads : threads[t].pc = "again" /\ threads'[t].pc # "again"

\* a thread inside g_ref_acquire or g_ref_release is scheduled until the
\* call returns
AtomicLiveSpec ==
    /\ AtomicRefSpec
    /\ WF_vars(AtomicAcquireAdd)
    /\ WF_vars(AtomicReleaseUpdate)
    /\ WF_vars(RetryRead)

-----------------------------------------------------------------------------
(* What the set holds, read through the query functions *)

Contents(s) == {i \in GUint : g_index_set_contains_index(s, i)}

\* the indices of a range, without wraparound
RangeIndices(range) ==
    {i \in GUint : range.location <= i /\ i < range.location + range.length}

ListIndices(indices) == {indices[k] : k \in 1 .. Len(indices)}

TypeOK ==
    /\ pc \in {"ready", "returned", "aborted"}
    /\ index_set.ranges \in Seq(GRangeT)
    /\ index_set.is_mutable \in BOOLEAN
    /\ index_set.ranges_null \in BOOLEAN
    /\ index_set.ranges_null => index_set.ranges = << >>

-----------------------------------------------------------------------------
(* The invariants of the range store, as the specification words them:     *)
(* no empty range, and each range starts strictly after the exclusive      *)
(* upper bound of the one before it (sorted, no overlap, no adjacency)     *)

StoreInvariant(ranges) ==
    /\ \A k \in 1 .. Len(ranges) : ranges[k].length > 0
    /\ \A k \in 2 .. Len(ranges) :
           ranges[k].location > ranges[k - 1].location + ranges[k - 1].length

MutatorOps ==
    {"add_index", "add_indices", "add_indicesv", "add_range", "add_set",
     "remove_index", "init_with_index", "init_with_indices",
     "init_with_indicesv", "init_with_range", "init_with_set"}

\* C1: after every add, remove and init_with_* call the range store is
\* sorted, without empty, overlapping or adjacent ranges, and no assertion
\* of g_index_set_ensure_ranges has failed
C1_InvariantPreservation ==
    call.op \in MutatorOps =>
        /\ call.outcome # "assert"
        /\ g_index_set_ensure_ranges(index_set)
        /\ StoreInvariant(index_set.ranges)

-----------------------------------------------------------------------------
(* Adding *)

\* the call has come back to the client (the program did not stop in it)
Returned == pc = "returned"

\* an initialized, mutable set: what the add functions are documented for
Usable(s) == s.is_mutable /\ ~ s.ranges_null

\* the indices an add call was given
Added ==
    CASE call.op = "add_index" -> {call.index_}
      [] call.op \in {"add_indices", "add_indicesv"} -> ListIndices(call.indices)
      [] call.op = "add_range" -> RangeIndices(call.range)
      [] OTHER -> {}

\* no index given to the call reaches G_MAXUINT: its upper bound does not wrap
\* (location + length <= G_MAXUINT); every call whose upper bound is below
\* the sentinel is among these
UpperBoundFits ==
    /\ call.index_ < G_MAXUINT
    /\ call.range.location + call.range.length <= G_MAXUINT
    /\ \A k \in 1 .. Len(call.indices) : call.indices[k] < G_MAXUINT

UpperBoundBelowSentinel ==
    /\ call.index_ < G_INDEX_SET_NOT_FOUND
    /\ call.range.location + call.range.length <= G_INDEX_SET_NOT_FOUND
    /\ \A k \in 1 .. Len(call.indices) : call.indices[k] < G_INDEX_SET_NOT_FOUND

\* C2: after add_index, add_indices, add_indicesv and add_range on a mutable
\* set, with an upper bound that does not wrap (so also: below the sentinel),
\* the set contains exactly what it contained before plus the indices given
C2_AddRefinesSet ==
    (/\ call.op \in {"add_index", "add_indices", "add_indicesv", "add_range"}
     /\ Usable(pre)
     /\ UpperBoundFits)
    => /\ call.outcome = "ok"
       /\ Contents(index_set) = Contents(pre) \cup Added

\* an add_range below the sentinel that swallowed two stored ranges, and one
\* that was swallowed by a stored range
C2_Witness ==
    /\ Returned
    /\ call.op = "add_range"
    /\ Usable(pre)
    /\ UpperBoundBelowSentinel
    /\ Len(pre.ranges) >= 2
    /\ Len(index_set.ranges) = 1
    /\ Contents(index_set) # Contents(pre)
    /\ Cardinality(Added) = 3

\* C3: add_index, add_indices, add_indicesv, add_range and add_set on an
\* immutable set are refused: ranges, size and mutability flag stay as they were
C3_ImmutableRefusesAdd ==
    (/\ call.op \in {"add_index", "add_indices", "add_indicesv", "add_range",
                     "add_set"}
     /\ ~ pre.is_mutable)
    => /\ call.outcome = "refused"
       /\ index_set.ranges = pre.ranges
       /\ index_set.ranges_null = pre.ranges_null
       /\ g_index_set_get_size(index_set) = g_index_set_get_size(pre)
       /\ index_set.is_mutable = pre.is_mutable

\* add_set of a set with new indices, refused by an immutable, non-empty set
C3_Witness ==
    /\ Returned
    /\ call.op = "add_set"
    /\ ~ pre.is_mutable
    /\ Len(pre.ranges) > 0
    /\ Contents(call.set) # {}
    /\ ~ (Contents(call.set) \subseteq Contents(pre))
    /\ call.outcome = "refused"

InitOps ==
    {"init", "init_empty", "init_with_index", "init_with_indices",
     "init_with_indicesv", "init_with_range", "init_with_set"}

\* C4: a call on an immutable set that is not one of the init functions leaves
\* it immutable with the same contents (and the same ranges)
C4_ImmutableUntilInit ==
    (/\ call.op \notin InitOps \cup {"none"}
     /\ ~ pre.is_mutable)
    => /\ ~ index_set.is_mutable
       /\ Contents(index_set) = Contents(pre)
       /\ index_set.ranges = pre.ranges

\* remove_index of a contained index on an immutable set
C4_Witness ==
    /\ Returned
    /\ call.op = "remove_index"
    /\ ~ pre.is_mutable
    /\ call.index_ \in Contents(pre)

\* ... and an init function is what makes an immutable set mutable again
C4_WitnessReinit ==
    /\ Returned
    /\ call.op = "init"
    /\ ~ pre.is_mutable
    /\ Contents(pre) # {}
    /\ index_set.is_mutable

\* C5: whatever the set was before, after init it is mutable and empty, after
\* init_empty immutable and empty, after init_with_index, init_with_indices,
\* init_with_indicesv and init_with_range immutable with exactly the given
\* indices
C5_InitResults ==
    /\ call.op = "init" =>
           index_set.is_mutable /\ Contents(index_set) = {}
    /\ call.op = "init_empty" =>
           ~ index_set.is_mutable /\ Contents(index_set) = {}
    /\ call.op = "init_with_index" =>
           ~ index_set.is_mutable /\ Contents(index_set) = {call.index_}
    /\ call.op \in {"init_with_indices", "init_with_indicesv"} =>
           ~ index_set.is_mutable /\ Contents(index_set) = ListIndices(call.indices)
    /\ call.op = "init_with_range" =>
           ~ index_set.is_mutable /\ Contents(index_set) = RangeIndices(call.range)

\* C6: after remove_index(i) on a mutable set i is not contained, every other
\* index is contained as before, and the size drops by one if i was contained
C6_RemoveIndex ==
    (call.op = "remove_index" /\ Usable(pre))
    => /\ Contents(index_set) = Contents(pre) \ {call.index_}
       /\ call.index_ \in Contents(pre) =>
              g_index_set_get_size(index_set) = g_index_set_get_size(pre) - 1

-----------------------------------------------------------------------------
(* One index at a time, against the whole range at once *)

\* most add_index calls made in a row for one range
MaxAdds == 3

AddSeqs == UNION {[1 .. n -> GUint] : n \in 1 .. MaxAdds}

Min(S) == CHOOSE x \in S : \A y \in S : x <= y

Max(S) == CHOOSE x \in S : \A y \in S : x >= y

\* the range whose indices are exactly those of S, when S is a run of indices
SpanOf(S) == G_RANGE_INIT(Min(S), Cardinality(S))

IsRun(S) == S # {} /\ S = Min(S) .. Max(S)

\* g_index_set_add_index called for indices[i + 1], indices[i + 2], ...
RECURSIVE AddIndexFrom(_, _, _)
AddIndexFrom(s, indices, i) ==
    IF i >= Len(indices)
    THEN Done(s)
    ELSE LET one == g_index_set_add_index(s, indices[i + 1])
         IN  IF one.outcome = "ok"
             THEN AddIndexFrom(one.set, indices, i + 1)
             ELSE one

SameSet(a, b) ==
    /\ a.outcome = b.outcome
    /\ a.set.ranges = b.set.ranges
    /\ Contents(a.set) = Contents(b.set)
    /\ g_index_set_get_size(a.set) = g_index_set_get_size(b.set)
    /\ g_index_set_get_first_index(a.set) = g_index_set_get_first_index(b.set)
    /\ g_index_set_get_last_index(a.set) = g_index_set_get_last_index(b.set)

\* C7: the add_index call just made, followed by add_index for the rest of
\* any listing (any order, duplicates) of the indices of a range, gives the
\* set that one add_range of that range gives from the same starting set:
\* same ranges, contents, size, first and last index
C7_RoundTrip ==
    (call.op = "add_index" /\ Usable(pre))
    => \A l \in AddSeqs :
           (l[1] = call.index_ /\ IsRun(ListIndices(l)))
           => SameSet(IF call.outcome = "ok"
                      THEN AddIndexFrom(index_set, l, 1)
                      ELSE [set |-> index_set, outcome |-> call.outcome],
                      g_index_set_add_range(pre, SpanOf(ListIndices(l))))

\* is every index of the range contained (no index of it is past G_MAXUINT)
FullyContained(s, range) ==
    /\ range.location + range.length <= G_MAXUINT + 1
    /\ RangeIndices(range) \subseteq Contents(s)

\* C8: add_index of an index already contained, and add_range of a range
\* already fully contained, leave the size and the stored ranges unchanged
C8_AddIdempotent ==
    /\ (call.op = "add_index" /\ Usable(pre) /\ call.index_ \in Contents(pre))
       => /\ call.outcome = "ok"
          /\ index_set.ranges = pre.ranges
          /\ g_index_set_get_size(index_set) = g_index_set_get_size(pre)
    /\ (call.op = "add_range" /\ Usable(pre) /\ FullyContained(pre, call.range))
       => /\ call.outcome = "ok"
          /\ index_set.ranges = pre.ranges
          /\ g_index_set_get_size(index_set) = g_index_set_get_size(pre)

\* add_range of a contained range of several indices, in the middle of a
\* stored range, of a set of several ranges
C8_Witness ==
    /\ Returned
    /\ call.op = "add_range"
    /\ Usable(pre)
    /\ call.range.length >= 2
    /\ FullyContained(pre, call.range)
    /\ Len(pre.ranges) >= 2
    /\ \E k \in 1 .. Len(pre.ranges) :
           /\ pre.ranges[k].location < call.range.location
           /\ g_range_get_max(call.range) < g_range_get_max(pre.ranges[k])

\* add_index of a contained index that is the last of its range
C8_WitnessIndex ==
    /\ Returned
    /\ call.op = "add_index"
    /\ Usable(pre)
    /\ call.index_ \in Contents(pre)
    /\ call.index_ + 1 \notin Contents(pre)
    /\ Len(pre.ranges) >= 2

\* C9: g_index_set_get_size is the number of distinct indices contained
C9_SizeIsCardinality ==
    pc # "aborted" =>
        g_index_set_get_size(index_set) = Cardinality(Contents(index_set))

\* C10: get_first_index is the smallest and get_last_index the largest index
\* contained; each is G_INDEX_SET_NOT_FOUND exactly when the set is empty; on
\* a set that is not empty they are equal exactly when it holds one index
C10_FirstLast ==
    pc # "aborted" =>
        LET S     == Contents(index_set)
            first == g_index_set_get_first_index(index_set)
            last  == g_index_set_get_last_index(index_set)
        IN  /\ (first = G_INDEX_SET_NOT_FOUND) <=> (S = {})
            /\ (last = G_INDEX_SET_NOT_FOUND) <=> (S = {})
            /\ S # {} => /\ first = Min(S)
                         /\ last = Max(S)
                         /\ (first = last) <=> (Cardinality(S) = 1)

-----------------------------------------------------------------------------
(* Queries on a built set *)

\* the call that has just returned
ReturnedFrom(op) == pc = "returned" /\ call.op = op

\* C11: for a range whose upper bound does not exceed the sentinel,
\* g_index_set_contains_range returns TRUE if and only if every index of the
\* range is contained in the set (TRUE for a range of length zero); a range
\* only partly covered, or spanning a gap, gives FALSE
C11_ContainsRange ==
    (/\ ReturnedFrom("contains_range")
     /\ call.range.location + call.range.length <= G_INDEX_SET_NOT_FOUND)
    => (call.result <=> RangeIndices(call.range) \subseteq Contents(index_set))

\* a range that starts and ends on contained indices and spans a gap
C11_Witness ==
    /\ ReturnedFrom("contains_range")
    /\ call.range.location + call.range.length <= G_INDEX_SET_NOT_FOUND
    /\ call.range.length > 2
    /\ call.range.location \in Contents(index_set)
    /\ call.range.location + call.range.length - 1 \in Contents(index_set)
    /\ ~ (RangeIndices(call.range) \subseteq Contents(index_set))
    /\ call.result = FALSE

\* the smallest index of S, or the sentinel when S is empty
SmallestOf(S) == IF S = {} THEN G_INDEX_SET_NOT_FOUND ELSE Min(S)

\* the largest index of S, or the sentinel when S is empty
LargestOf(S) == IF S = {} THEN G_INDEX_SET_NOT_FOUND ELSE Max(S)

\* C12: for an index below the sentinel, g_index_set_get_index returns with
\* GREATER_THAN_OR_EQUAL the smallest contained index >= it, with GREATER_THAN
\* the smallest contained index > it, and G_INDEX_SET_NOT_FOUND exactly when
\* the set contains no such index
C12_GetIndexGreater ==
    (/\ ReturnedFrom("get_index")
     /\ call.index_ < G_INDEX_SET_NOT_FOUND)
    => /\ call.predicate = G_INDEX_SET_PREDICATE_GREATER_THAN_OR_EQUAL
            => /\ call.result =
                    SmallestOf({i \in Contents(index_set) : i >= call.index_})
               /\ call.result = G_INDEX_SET_NOT_FOUND
                    <=> {i \in Contents(index_set) : i >= call.index_} = {}
       /\ call.predicate = G_INDEX_SET_PREDICATE_GREATER_THAN
            => /\ call.result =
                    SmallestOf({i \in Contents(index_set) : i > call.index_})
               /\ call.result = G_INDEX_SET_NOT_FOUND
                    <=> {i \in Contents(index_set) : i > call.index_} = {}

\* C13: for every index, g_index_set_get_index returns with
\* LESS_THAN_OR_EQUAL the largest contained index <= it, with LESS_THAN the
\* largest contained index < it (also from a gap or from beyond the last
\* stored index), and G_INDEX_SET_NOT_FOUND exactly when the set contains no
\* such index
C13_GetIndexLess ==
    ReturnedFrom("get_index")
    => /\ call.predicate = G_INDEX_SET_PREDICATE_LESS_THAN_OR_EQUAL
            => /\ call.result =
                    LargestOf({i \in Contents(index_set) : i <= call.index_})
               /\ call.result = G_INDEX_SET_NOT_FOUND
                    <=> {i \in Contents(index_set) : i <= call.index_} = {}
       /\ call.predicate = G_INDEX_SET_PREDICATE_LESS_THAN
            => /\ call.result =
                    LargestOf({i \in Contents(index_set) : i < call.index_})
               /\ call.result = G_INDEX_SET_NOT_FOUND
                    <=> {i \in Contents(index_set) : i < call.index_} = {}

StrictlyIncreasing(seq) == \A k \in 2 .. Len(seq) : seq[k - 1] < seq[k]

StrictlyDecreasing(seq) == \A k \in 2 .. Len(seq) : seq[k - 1] > seq[k]

\* C14: the documented loops (get_first_index, then get_index GREATER_THAN;
\* get_last_index, then get_index LESS_THAN; until G_INDEX_SET_NOT_FOUND)
\* never visit an index twice or out of order, so they terminate, and when
\* they end they have visited every contained index exactly once, in
\* ascending (descending) order, in exactly size steps
C14_IterationLoops ==
    call.op = "iterate"
    => /\ IF call.predicate = G_INDEX_SET_PREDICATE_GREATER_THAN
          THEN StrictlyIncreasing(call.visited)
          ELSE StrictlyDecreasing(call.visited)
       /\ ListIndices(call.visited) \subseteq Contents(index_set)
       /\ pc = "returned"
            => /\ ListIndices(call.visited) = Contents(index_set)
               /\ Len(call.visited) = g_index_set_get_size(index_set)

-----------------------------------------------------------------------------
(* Enumeration *)

Reversed(seq) == [k \in 1 .. Len(seq) |-> seq[Len(seq) + 1 - k]]

OtherDirection(flags) ==
    IF flags = G_INDEX_SET_ENUMERATE_REVERSE
    THEN G_INDEX_SET_ENUMERATE_NONE
    ELSE G_INDEX_SET_ENUMERATE_REVERSE

EnumerationReturned ==
    pc = "returned" /\ call.op \in {"enumerate", "enumerate_in_range"}

\* C15: g_index_set_enumerate with a callback that never signals stop calls it
\* exactly size times, forward and with the reverse flag, and the sequence of
\* one direction is the reverse of the sequence of the other
C15_EnumerateCoverage ==
    (ReturnedFrom("enumerate") /\ call.cut_off = NoCutOff)
    => /\ Len(call.visited) = g_index_set_get_size(index_set)
       /\ Reversed(call.visited) =
            g_index_set_enumerate(index_set, OtherDirection(call.flags), NoCutOff)

\* C16: once the callback has returned TRUE for an index the enumeration
\* halts: that index is the last one the callback was called with, in both
\* directions, also when it is the last index of a stored range
C16_StopHalts ==
    EnumerationReturned
    => \A k \in 1 .. Len(call.visited) :
           call.visited[k] = call.cut_off => k = Len(call.visited)

\* the callback stops at the last index of a stored range, and the same
\* enumeration without the stop goes on to further indices
C16_Witness ==
    /\ ReturnedFrom("enumerate_in_range")
    /\ call.flags = G_INDEX_SET_ENUMERATE_NONE
    /\ call.visited # << >>
    /\ call.visited[Len(call.visited)] = call.cut_off
    /\ \E k \in 1 .. Len(index_set.ranges) :
           g_range_get_max(index_set.ranges[k]) = call.cut_off + 1
    /\ Len(g_index_set_enumerate_in_range(index_set, call.range, call.flags,
                                          NoCutOff)) > Len(call.visited)

\* the same in reverse: the callback stops at the first index of a stored
\* range, and the enumeration without the stop goes on below it
C16_WitnessReverse ==
    /\ EnumerationReturned
    /\ call.flags = G_INDEX_SET_ENUMERATE_REVERSE
    /\ call.visited # << >>
    /\ call.visited[Len(call.visited)] = call.cut_off
    /\ Len(g_index_set_enumerate_in_range(index_set, call.range, call.flags,
                                          NoCutOff)) > Len(call.visited)

\* C17: every index g_index_set_enumerate_in_range passes to the callback
\* lies inside the query range and is contained in the set (stored ranges
\* are clipped to the query range; a query range holding no index of the
\* set gives no callback)
C17_EnumerateInRangeClipped ==
    ReturnedFrom("enumerate_in_range")
    => ListIndices(call.visited)
         \subseteq (RangeIndices(call.range) \cap Contents(index_set))

\* C18: when the callback never signals stop, g_index_set_enumerate_in_range
\* calls it exactly once for every index that is both in the query range and
\* in the set, in both directions
C18_EnumerateInRangeCoverage ==
    (ReturnedFrom("enumerate_in_range") /\ call.cut_off = NoCutOff)
    => /\ ListIndices(call.visited)
            = RangeIndices(call.range) \cap Contents(index_set)
       /\ Len(call.visited) = Cardinality(ListIndices(call.visited))

\* C19: the indices passed to the callback during one enumeration are
\* strictly increasing without the reverse flag and strictly decreasing with
\* G_INDEX_SET_ENUMERATE_REVERSE; no index is passed twice
C19_EnumerationOrder ==
    EnumerationReturned
    => /\ IF call.flags = G_INDEX_SET_ENUMERATE_REVERSE
          THEN StrictlyDecreasing(call.visited)
          ELSE StrictlyIncreasing(call.visited)
       /\ Len(call.visited) = Cardinality(ListIndices(call.visited))

\* an enumeration that went through more than one stored range
C19_Witness ==
    /\ EnumerationReturned
    /\ call.flags = G_INDEX_SET_ENUMERATE_NONE
    /\ \E k \in 2 .. Len(call.visited) : call.visited[k] > call.visited[k - 1] + 1

\* the same with the reverse flag, within one stored range
C19_WitnessReverse ==
    /\ EnumerationReturned
    /\ call.flags = G_INDEX_SET_ENUMERATE_REVERSE
    /\ Len(call.visited) > 2

-----------------------------------------------------------------------------
(* Copying a set *)

\* C20: after g_index_set_init_with_set (dst, src) the set dst is immutable
\* and contains exactly the indices of src (same size, same first and last
\* index, same containment of every index), whatever it contained before,
\* for empty and non-empty src
C20_InitWithSet ==
    (call.op = "init_with_set" /\ pc # "ready")
    => /\ call.outcome = "ok"
       /\ ~ g_index_set_is_mutable(index_set)
       /\ Contents(index_set) = Contents(call.set)
       /\ g_index_set_get_size(index_set) = g_index_set_get_size(call.set)
       /\ g_index_set_get_first_index(index_set)
            = g_index_set_get_first_index(call.set)
       /\ g_index_set_get_last_index(index_set)
            = g_index_set_get_last_index(call.set)

-----------------------------------------------------------------------------
(* Adding a set *)

\* C21: after g_index_set_add_set (dst, src) on a mutable dst, dst contains
\* exactly the indices it contained before and the indices of src
C21_AddSetUnion ==
    (call.op = "add_set" /\ Usable(pre))
    => /\ call.outcome = "ok"
       /\ Contents(index_set) = Contents(pre) \cup Contents(call.set)

\* a src of two ranges added to a dst holding an index between them
C21_Witness ==
    /\ Returned
    /\ call.op = "add_set"
    /\ Usable(pre)
    /\ Len(call.set.ranges) = 2
    /\ Len(pre.ranges) >= 1
    /\ Len(index_set.ranges) = 1
    /\ Contents(pre) \cap Contents(call.set) = {}

-----------------------------------------------------------------------------
(* The sentinel *)

\* C22: in every reachable state the sentinel G_INDEX_SET_NOT_FOUND is not a
\* contained index: no init or add function stores it
C22_SentinelNotStored ==
    ~ g_index_set_contains_index(index_set, G_INDEX_SET_NOT_FOUND)

\* no stored range has an upper bound that wrapped
NoWrappedRange(ranges) ==
    \A k \in 1 .. Len(ranges) :
        ranges[k].location + ranges[k].length <= G_MAXUINT

\* C23: g_index_set_add_range and g_index_set_init_with_range given a range
\* whose location + length exceeds the sentinel (or wraps) fail cleanly: the
\* program goes on, no range with a wrapped upper bound is stored, the store
\* invariants hold, and after add_range the set contains what it contained
\* before
C23_RangeBeyondSentinel ==
    (/\ call.op \in {"add_range", "init_with_range"}
     /\ call.op = "add_range" => Usable(pre)
     /\ call.range.length > 0
     /\ call.range.location + call.range.length > G_INDEX_SET_NOT_FOUND)
    => /\ call.outcome \notin {"assert", "segv"}
       /\ NoWrappedRange(index_set.ranges)
       /\ StoreInvariant(index_set.ranges)
       /\ call.op = "add_range" => Contents(index_set) = Contents(pre)

-----------------------------------------------------------------------------
(* Reference counts *)

AllIdle == \A t \in Threads : threads[t].pc = "idle"

\* C24: under every interleaving of g_index_set_ref and g_index_set_unref by
\* threads that hold a reference, the reference count is the number of
\* outstanding references, and the set and its range store are released
\* exactly once, by the unref of the last reference, never while a reference
\* is outstanding
C24_IndexSetRefCount ==
    /\ area.ref_count = Held(threads)
    /\ area.freed <= 1
    /\ area.ranges_unref <= 1
    /\ Cardinality({t \in Threads : threads[t].pc = "free"}) + area.freed <= 1
    /\ (area.freed = 1 \/ \E t \in Threads : threads[t].pc = "free")
         => Held(threads) = 0
    /\ area.freed = 1
         => area.ranges_unref = IF index_set.ranges_null THEN 0 ELSE 1
    /\ (Held(threads) = 0 /\ AllIdle) => area.freed = 1

\* a thread other than the one that allocated the set has released the last
\* reference and is about to release a range store
C24_Witness ==
    /\ \E t \in Threads \ {1} : threads[t].pc = "free"
    /\ ~ index_set.ranges_null
    /\ area.freed = 0

\* an area of g_atomic_ref_alloc counts downwards from -1
IsAtomic(a) == a.ref_count < 0

\* what the notify and the block have gone through, for the calls made so far
NotifiedAsCounted ==
    /\ call.released <= call.acquired
         => area.freed = 0 /\ area.notified = 0
    /\ call.released = call.acquired + 1
         => area.freed = 1 /\ area.notified = IF area.notify THEN 1 ELSE 0

C27_ReallocKeepsCount ==
    call.reallocs > 0
    => /\ call.op = "g_ref_realloc"
            => /\ area.ref_count = call.before.ref_count
               /\ area.notify = call.before.notify
       /\ call.outcome = "ok"
       /\ NotifiedAsCounted

-----------------------------------------------------------------------------
(* Claims C28 to C30 *)

\* the set after g_index_set_remove_index (index_), the call just made, when
\* range is that one index, and after g_index_set_remove_range otherwise
RemovedFrom(range) ==
    IF range = G_RANGE_INIT(call.index_, 1)
    THEN [set |-> index_set, outcome |-> call.outcome]
    ELSE g_index_set_remove_range(pre, range)

ReAdded(range) ==
    IF RemovedFrom(range).outcome = "ok"
    THEN g_index_set_add_range(RemovedFrom(range).set, range)
    ELSE RemovedFrom(range)

\* C28: for a set S and a range R, removing R and then adding R again leaves
\* every index outside R contained exactly when S contained it, and every
\* index inside R contained
C28_RemoveThenAdd ==
    (ReturnedFrom("remove_index") /\ Usable(pre))
    => \A range \in GRangeT :
           /\ ReAdded(range).outcome = "ok"
           /\ Contents(ReAdded(range).set) \ RangeIndices(range)
                = Contents(pre) \ RangeIndices(range)
           /\ RangeIndices(range) \subseteq Contents(ReAdded(range).set)

\* the call was refused by a g_return_if_fail or g_return_val_if_fail of an
\* init or add function
Rejected ==
    /\ pc = "returned"
    /\ call.outcome = "refused"
    /\ call.op \in {"init", "init_empty", "init_with_index", "init_with_indices",
                    "init_with_indicesv", "init_with_range", "init_with_set",
                    "add_index", "add_indices", "add_indicesv", "add_range",
                    "add_set"}

\* C29: an init or add call rejected for a NULL argument, an immutable
\* target, a NULL index array with n_indices > 0 or a NULL range is not
\* partially applied: the ranges and the mutability flag of the set are what
\* they were before the call
C29_RejectedNotApplied ==
    Rejected
    => /\ index_set.ranges = (IF pre = NullSet THEN index_set ELSE pre).ranges
       /\ index_set.is_mutable = (IF pre = NullSet THEN index_set ELSE pre).is_mutable

\* the range store that holds exactly the indices of S: its runs, ascending
RECURSIVE StoreOf(_, _)
StoreOf(S, ranges) ==
    IF S = {}
    THEN ranges
    ELSE LET lo == Min(S)
             hi == Max({j \in S : lo .. j \subseteq S})
         IN  StoreOf(S \ (lo .. hi), Append(ranges, G_RANGE_INIT(lo, hi - lo + 1)))

\* the range stores that satisfy the invariants: sorted, no overlap, no
\* adjacency, no empty range, and no assertion of g_index_set_ensure_ranges
\* fails on them
InvariantStores ==
    {ranges \in {StoreOf(S, << >>) : S \in SUBSET GUint} :
        StoreInvariant(ranges) /\ EnsureFrom(ranges, 0, 0)}

PositionInit ==
    /\ index_set \in {[ranges |-> ranges, ranges_null |-> FALSE, is_mutable |-> m] :
                         ranges \in InvariantStores, m \in BOOLEAN}
    /\ pc = "ready"
    /\ call = NoCall
    /\ pre = index_set
    /\ area = IndexSetArea
    /\ threads = OwnerThreads

\* a function of gindexset.c looks up the position of an index
GetPosition ==
    /\ pc = "ready"
    /\ \E i \in GUint :
        Query("get_position", i, NoRange, "none", G_INDEX_SET_ENUMERATE_NONE,
              NoCutOff, g_index_set_get_position(index_set.ranges, i), << >>)

PositionNext ==
    \/ GetPosition
    \/ Resume

PositionSpec == PositionInit /\ [][PositionNext]_vars

\* the exclusive upper bound of the range at position p (counted from 0)
EndOf(ranges, p) == ranges[p + 1].location + ranges[p + 1].length

\* C30: on every range store that satisfies the invariants, the empty one
\* included (position 0), and for every index, g_index_set_get_position
\* returns the position p at which the range contains the index, or p is the
\* number of ranges and the index is past the last range, or the index is
\* below the range at p and the range before p, if any, ends at or before
\* the index; an index equal to the exclusive upper bound of a range gets
\* the following position, never that of the range
C30_GetPosition ==
    ReturnedFrom("get_position")
    => LET ranges == index_set.ranges
           n == Len(ranges)
           p == call.result
           i == call.index_
       IN  /\ p \in 0 .. n
           /\ n = 0 => p = 0
           /\ \/ /\ p < n
                 /\ ranges[p + 1].location <= i
                 /\ i < EndOf(ranges, p)
              \/ /\ p = n
                 /\ n > 0 => EndOf(ranges, n - 1) <= i
              \/ /\ p < n
                 /\ i < ranges[p + 1].location
                 /\ p > 0 => EndOf(ranges, p - 1) <= i
           /\ \A k \in 0 .. n - 1 : i = EndOf(ranges, k) => p = k + 1

\* the index is the exclusive upper bound of the second of four ranges and
\* the position returned is that of the third
C30_Witness ==
    /\ ReturnedFrom("get_position")
    /\ Len(index_set.ranges) = 4
    /\ call.index_ = EndOf(index_set.ranges, 1)
    /\ call.result = 2

-----------------------------------------------------------------------------
(* Claims C31 to C40 *)

(* The loops of g_index_set_enumerate_in_range, one iteration at a time *)

\* the sets enumerated: every store that satisfies the invariants, and the
\* sets one init call gives (a set without range store and the wrapped range
\* of g_index_set_init_with_index among them)
EnumerateSets ==
    {[ranges |-> ranges, ranges_null |-> FALSE, is_mutable |-> FALSE] :
        ranges \in InvariantStores} \cup OtherSets

\* the callbacks: one that never returns TRUE, one that does at an index
LoopCutOffs == {NoCutOff, 1}

LoopInit ==
    /\ index_set \in EnumerateSets
    /\ pc = "ready"
    /\ call = NoCall
    /\ pre = index_set
    /\ area = IndexSetArea
    /\ threads = OwnerThreads

\* mutant: the test of j against 0 before it is decremented is missing
AtZero_Never(j) == FALSE

\* "if (j == 0) break;" of the reverse direction
AtZero(j) == j = 0

\* the locals of g_index_set_enumerate_in_range; visited is the set of the
\* indices func has been called with
LoopCall(op, flags, cut_off, i, stop, j, r_stop, visited) ==
    [op |-> op, flags |-> flags, cut_off |-> cut_off,
     is_reverse |-> flags = G_INDEX_SET_ENUMERATE_REVERSE,
     i |-> i, stop |-> stop, j |-> j, r_stop |-> r_stop, visited |-> visited]

\* g_index_set_enumerate_in_range up to "i = start"
EnterEnumerateInRange(op, range, flags, cut_off) ==
    IF index_set.ranges_null \/ Len(index_set.ranges) = 0 \/ range.length = 0
    THEN /\ call' = LoopCall(op, flags, cut_off, 0, 0, 0, 0, {})
         /\ pc' = "returned"
    ELSE LET found == g_index_set_get_position(index_set.ranges, range.location)
             start == IF found >= Len(index_set.ranges) THEN 0 ELSE found
             stop  == g_index_set_get_position(index_set.ranges,
                                               USub(g_range_get_max(range), 1))
         IN  /\ call' = LoopCall(op, flags, cut_off, start, stop, 0, 0, {})
             /\ pc' = "outer"

LoopEnumerateInRange ==
    /\ pc = "ready"
    /\ \E range \in GRangeT, flags \in GIndexSetEnumerateFlags,
          cut_off \in LoopCutOffs :
        EnterEnumerateInRange("enumerate_in_range", range, flags, cut_off)
    /\ UNCHANGED <<index_set, pre, area, threads>>

LoopEnumerate ==
    /\ pc = "ready"
    /\ \E flags \in GIndexSetEnumerateFlags, cut_off \in LoopCutOffs :
        LET first == g_index_set_get_first_index(index_set)
            last  == g_index_set_get_last_index(index_set)
        IN  IF first = G_INDEX_SET_NOT_FOUND
            THEN /\ call' = LoopCall("enumerate", flags, cut_off, 0, 0, 0, 0, {})
                 /\ pc' = "returned"
            ELSE EnterEnumerateInRange(
                     "enumerate", G_RANGE_INIT(first, UAdd(USub(last, first), 1)),
                     flags, cut_off)
    /\ UNCHANGED <<index_set, pre, area, threads>>

\* "while (is_reverse ? i >= stop : i < stop)": the test, and r_start and
\* r_stop of the range entered
OuterLoop ==
    /\ pc = "outer"
    /\ IF IF call.is_reverse THEN call.i >= call.stop ELSE call.i < call.stop
       THEN LET r_range == g_array_index(index_set.ranges, call.i)
            IN  /\ call' = [call EXCEPT
                               !.j = EnumerateStart(r_range, call.is_reverse),
                               !.r_stop = EnumerateStop(r_range, call.is_reverse)]
                /\ pc' = "inner"
       ELSE /\ pc' = "returned"
            /\ UNCHANGED call
    /\ UNCHANGED <<index_set, pre, area, threads>>

\* "while (is_reverse ? j >= r_stop : j < r_stop)": the test, one call of
\* func, and the step of j
InnerLoop ==
    /\ pc = "inner"
    /\ IF IF call.is_reverse THEN call.j >= call.r_stop ELSE call.j < call.r_stop
       THEN IF GIndexSetEnumerateFunc(call.j, call.cut_off)
            THEN /\ call' = [call EXCEPT !.visited = @ \cup {call.j}]
                 /\ pc' = "returned"
            ELSE IF call.is_reverse
            THEN IF AtZero(call.j)
                 THEN /\ call' = [call EXCEPT !.visited = @ \cup {call.j}]
                      /\ pc' = "advance"
                 ELSE /\ call' = [call EXCEPT !.visited = @ \cup {call.j},
                                              !.j = USub(@, 1)]
                      /\ pc' = "inner"
            ELSE /\ call' = [call EXCEPT !.visited = @ \cup {call.j},
                                         !.j = UAdd(@, 1)]
                 /\ pc' = "inner"
       ELSE /\ pc' = "advance"
            /\ UNCHANGED call
    /\ UNCHANGED <<index_set, pre, area, threads>>

\* the step of i after the inner loop
OuterAdvance ==
    /\ pc = "advance"
    /\ IF call.is_reverse
       THEN IF call.i = 0
            THEN /\ pc' = "returned"
                 /\ UNCHANGED call
            ELSE /\ call' = [call EXCEPT !.i = USub(@, 1)]
                 /\ pc' = "outer"
       ELSE /\ call' = [call EXCEPT !.i = UAdd(@, 1)]
            /\ pc' = "outer"
    /\ UNCHANGED <<index_set, pre, area, threads>>

LoopNext ==
    \/ LoopEnumerateInRange
    \/ LoopEnumerate
    \/ OuterLoop
    \/ InnerLoop
    \/ OuterAdvance
    \/ Resume

\* the thread that runs the enumeration is scheduled until it returns
LoopSpec ==
    /\ LoopInit
    /\ [][LoopNext]_vars
    /\ WF_vars(OuterLoop)
    /\ WF_vars(InnerLoop)
    /\ WF_vars(OuterAdvance)

InLoop == pc \in {"outer", "inner", "advance"}

\* C31: g_index_set_enumerate and g_index_set_enumerate_in_range terminate
\* for every set, range and direction, also when func never returns TRUE
\* and when the reverse direction reaches index 0 or position 0
C31_EnumerateTerminates == InLoop ~> pc = "returned"

\* a reverse enumeration that func never stopped has been through index 0
\* and position 0 and has returned
C31_Witness ==
    /\ pc = "returned"
    /\ call.op \in {"enumerate", "enumerate_in_range"}
    /\ call.is_reverse
    /\ call.cut_off = NoCutOff
    /\ call.i = 0
    /\ call.j = 0
    /\ 0 \in call.visited

\* C32: g_index_set_remove_index on an immutable set is refused as a
\* precondition violation, like the add functions, and the set is unchanged
C32_ImmutableRefusesRemove ==
    (call.op = "remove_index" /\ pc # "ready" /\ ~ pre.is_mutable)
    => /\ call.outcome = "refused"
       /\ index_set = pre

CallStarts ==
    \E t \in Threads : threads[t].pc = "idle" /\ threads'[t].pc # "idle"

\* thread t leaves g_ref_release
ReleaseCompletes(t) ==
    threads[t].pc = "release" /\ threads'[t].pc = "idle"

C36_ContainsRangeAcrossSentinel ==
    (/\ ReturnedFrom("contains_range")
     /\ call.range.length > 0
     /\ call.range.location + call.range.length > G_INDEX_SET_NOT_FOUND)
    => call.result = FALSE

\* C37: g_index_set_get_index with GREATER_THAN returns, for every index
\* asked, the sentinel and G_MAXUINT included, an index strictly greater
\* than it or G_INDEX_SET_NOT_FOUND
C37_GreaterThanIsGreater ==
    (/\ ReturnedFrom("get_index")
     /\ call.predicate = G_INDEX_SET_PREDICATE_GREATER_THAN)
    => \/ call.result > call.index_
       \/ call.result = G_INDEX_SET_NOT_FOUND

\* every query on s gives the result of the empty set, and func is not called
QueriesEmpty(s) ==
    /\ g_index_set_get_size(s) = 0
    /\ g_index_set_get_first_index(s) = G_INDEX_SET_NOT_FOUND
    /\ g_index_set_get_last_index(s) = G_INDEX_SET_NOT_FOUND
    /\ \A i \in GUint :
           /\ ~ g_index_set_contains_index(s, i)
           /\ \A predicate \in GIndexSetPredicate :
                  g_index_set_get_index(s, predicate, i) = G_INDEX_SET_NOT_FOUND
    /\ \A range \in GRangeT :
           /\ range.length > 0 => ~ g_index_set_contains_range(s, range)
           /\ \A flags \in GIndexSetEnumerateFlags :
                  g_index_set_enumerate_in_range(s, range, flags, NoCutOff) = << >>
    /\ \A flags \in GIndexSetEnumerateFlags :
           g_index_set_enumerate(s, flags, NoCutOff) = << >>

\* C38: a set out of g_index_set_alloc that no init function has been given
\* has no range store: every query on it returns the empty result, and every
\* add call on it is rejected or ignored, without a read of the range store
\* that is not there
C38_NoRangeStore ==
    /\ index_set.ranges_null => QueriesEmpty(index_set)
    /\ (/\ call.op \in {"add_index", "add_indices", "add_indicesv", "add_range",
                        "add_set"}
        /\ pre.ranges_null)
       => /\ call.outcome \in {"ok", "refused"}
          /\ index_set = pre

\* g_index_set_add_range of range after the call that gave res, if it returned
ThenAddRange(res, range) ==
    IF res.outcome = "ok" THEN g_index_set_add_range(res.set, range) ELSE res

\* the range store of s is the one of its contents: the runs, ascending
Canonical(s) == s.ranges = StoreOf(Contents(s), << >>)

\* C39: on a mutable set, g_index_set_add_range of a and then of b leaves the
\* same sequence of stored ranges as b and then a, and the sequence is the
\* canonical one of the indices contained, so that sets with the same
\* indices hold the same sequence however they were built
C39_OrderIndependent ==
    (call.op = "add_range" /\ Usable(pre))
    => \A b \in GRangeT :
           LET ab == ThenAddRange([set |-> index_set, outcome |-> call.outcome], b)
               ba == ThenAddRange(g_index_set_add_range(pre, b), call.range)
           IN  /\ ab.outcome = "ok"
               /\ ba.outcome = "ok"
               /\ ab.set.ranges = ba.set.ranges
               /\ Canonical(pre) => Canonical(ab.set)

\* C40: in a build with G_ENABLE_DEBUG the registry holds exactly the
\* pointers that denote a reference counted area now: the pointer the
\* allocation or the last g_ref_realloc returned while the area lives,
\* nothing once it is destroyed; so g_ref_release on the pointer
\* g_ref_realloc returned is accepted, and a superseded or destroyed pointer
\* is not in the registry
C40_RegistryIsLive ==
    area.debug
    => /\ area.registry = IF area.freed = 0 THEN {area.ptr} ELSE {}
       /\ call.op = "g_ref_release" => call.outcome = "ok"

====
